---- MODULE Spec2Model ----
(***************************************************************************)
(* Model of percentage_blocks, the waffle-plot allocation function of      *)
(* "1. univariate exploration of data/11. extra - waffle plots.ipynb"      *)
(* (notebook lines 27-42).                                                 *)
(*                                                                         *)
(* A dataframe column is a finite sequence of observations; an observation *)
(* is a category label or NaN (a missing value).  The column is either of  *)
(* object dtype or of categorical dtype with the declared categories       *)
(* CatOrder.  A pandas Series is a sequence of records [idx, val]: its     *)
(* index labels in order, with their values.                               *)
(*                                                                         *)
(* A float64 value is kept exactly: [num, den, err] stands for the double  *)
(*      (num + err / 2^52) / den,                                          *)
(* where num/den is the exact quotient and err the rounding error of the   *)
(* IEEE-754 division in units of 2^-52/den (round to nearest, ties to      *)
(* even).  den = 0 stands for NaN (the result of 0/0).                     *)
(***************************************************************************)
EXTENDS Integers, Sequences, FiniteSets, TLC

Labels == {"A", "B", "C"}
CatOrder == <<"A", "B", "C">>
NaN == "NaN"
Obs == Labels \cup {NaN}

MaxRows == 6

\* rows of each input when two callers run side by side
MaxRowsCallers == 2

VARIABLES df, categorical, pc, percentages, counts, decimal, rem, pos, result

\* several callers of percentage_blocks: the objects they create and the
\* local names of each call
VARIABLES heap, frames

\* the plotting cell that draws the returned series
VARIABLES waffle_counts, labelkind, prev_count, cat_i, bars, legend, ppc

\* the Q-Q plot cell
VARIABLES num_var, n_points, qs, expected_vals, scatter, qpc

\* the relative-frequency stacked bar cell
VARIABLES df_cats, cats_categorical, cat1_counts, baselines, artists, i_cat2, spc

\* the 2-d histogram of means
VARIABLES df_nums, xbin_edges, ybin_edges, xbin_idxs, ybin_idxs, pts_per_bin, z_wts, hpc

\* one call of mean_poly, and the global bin_edges of its notebook
VARIABLES poly_x, poly_y, bins_arg, bin_edges, bins, bin_centers, means, errorbar, mpc

callVars == <<df, categorical, pc, percentages, counts, decimal, rem, pos, result>>
callersVars == <<heap, frames>>
plotVars == <<waffle_counts, labelkind, prev_count, cat_i, bars, legend, ppc>>
qqVars == <<num_var, n_points, qs, expected_vals, scatter, qpc>>
stackVars == <<df_cats, cats_categorical, cat1_counts, baselines, artists, i_cat2, spc>>
histVars == <<df_nums, xbin_edges, ybin_edges, xbin_idxs, ybin_idxs, pts_per_bin, z_wts, hpc>>
polyVars == <<poly_x, poly_y, bins_arg, bin_edges, bins, bin_centers, means, errorbar, mpc>>

\* the cells of the other notebooks
nbVars == <<qqVars, stackVars, histVars, polyVars>>

vars == <<callVars, callersVars, plotVars, nbVars>>

\* what a step of one of these cells leaves alone
notQQ == <<callVars, callersVars, plotVars, stackVars, histVars, polyVars>>
notStack == <<callVars, callersVars, plotVars, qqVars, histVars, polyVars>>
notHist == <<callVars, callersVars, plotVars, qqVars, stackVars, polyVars>>
notPoly == <<callVars, callersVars, plotVars, qqVars, stackVars, histVars>>

----------------------------------------------------------------------------
(* Helpers on sequences *)

RECURSIVE SumVal(_)
SumVal(s) == IF s = <<>> THEN 0 ELSE Head(s).val + SumVal(Tail(s))

Min(a, b) == IF a < b THEN a ELSE b

RECURSIVE PowMod(_, _, _)
PowMod(b, e, m) == IF e = 0 THEN 1 % m ELSE (b * PowMod(b, e - 1, m)) % m

RECURSIVE Pow2(_)
Pow2(e) == IF e = 0 THEN 1 ELSE 2 * Pow2(e - 1)

----------------------------------------------------------------------------
(* Series.value_counts(): missing values are dropped; object dtype lists   *)
(* the labels in order of first appearance, categorical dtype lists every  *)
(* declared category (also the unobserved ones, with count 0) in category  *)
(* order; the result is then sorted by count, descending, ties keeping     *)
(* their order.                                                            *)

CountOf(d, l) == Cardinality({k \in DOMAIN d : d[k] = l})

\* a de-duplication that keeps the last occurrence of a label, not the first
RECURSIVE unique_keep_last(_, _, _)
unique_keep_last(d, k, acc) ==
    IF k > Len(d) THEN acc
    ELSE unique_keep_last(d, k + 1,
                IF d[k] = NaN THEN acc
                ELSE Append(SelectSeq(acc, LAMBDA x : x # d[k]), d[k]))

RECURSIVE unique(_, _, _)
unique(d, k, acc) ==
    IF k > Len(d) THEN acc
    ELSE unique(d, k + 1,
                IF d[k] = NaN \/ (\E j \in DOMAIN acc : acc[j] = d[k])
                THEN acc ELSE Append(acc, d[k]))

\* x sorts before y in a descending sort of integers
GtInt(x, y) == x > y

\* a comparison that also moves x before an equal y: the sort is not stable
GtFloat_or_equal(x, y) == x.num > y.num \/ (x.num = y.num /\ x.err >= y.err)

\* x sorts before y in a descending sort of doubles with a common den
GtFloat(x, y) == x.num > y.num \/ (x.num = y.num /\ x.err > y.err)

\* Series.sort_values(ascending=False) on at most 16 entries: insertion
\* sort, stable (equal values keep their relative order).
RECURSIVE InsertInt(_, _)
InsertInt(s, r) ==
    IF s = <<>> THEN <<r>>
    ELSE IF GtInt(r.val, s[Len(s)].val)
         THEN Append(InsertInt(SubSeq(s, 1, Len(s) - 1), r), s[Len(s)])
         ELSE Append(s, r)

RECURSIVE SortInt(_, _)
SortInt(s, k) == IF k = 0 THEN <<>> ELSE InsertInt(SortInt(s, k - 1), s[k])

RECURSIVE InsertFloat(_, _)
InsertFloat(s, r) ==
    IF s = <<>> THEN <<r>>
    ELSE IF GtFloat(r.val, s[Len(s)].val)
         THEN Append(InsertFloat(SubSeq(s, 1, Len(s) - 1), r), s[Len(s)])
         ELSE Append(s, r)

RECURSIVE SortFloat(_, _)
SortFloat(s, k) == IF k = 0 THEN <<>> ELSE InsertFloat(SortFloat(s, k - 1), s[k])

value_counts(d, cat) ==
    LET idx == IF cat THEN CatOrder ELSE unique(d, 1, <<>>)
        raw == [k \in DOMAIN idx |-> [idx |-> idx[k], val |-> CountOf(d, idx[k])]]
    IN  SortInt(raw, Len(raw))

\* a row count that leaves the missing values out
shape0_dropna(d) == Cardinality({k \in DOMAIN d : d[k] # NaN})

\* df.shape[0]: the number of rows, missing values included
shape0(d) == Len(d)

----------------------------------------------------------------------------
(* IEEE-754 double division num / den, num >= 0.                           *)

\* floor(log2(num/den)) for num/den >= 1
RECURSIVE Log2Floor(_, _)
Log2Floor(num, den) == IF num < 2 * den THEN 0 ELSE 1 + Log2Floor(num, 2 * den)

\* rounding error of fl(num/den), in units of 2^-52 / den
RoundErr(num, den) ==
    IF num = 0 \/ num % den = 0 THEN 0
    ELSE LET L == Log2Floor(num, den)
             m2 == (num * PowMod(2, 52 - L, 2 * den)) % (2 * den)
             odd == m2 >= den
             m == m2 % den
             s == IF 2 * m < den THEN 0 - m
                  ELSE IF 2 * m > den THEN den - m
                  ELSE IF odd THEN den - m ELSE 0 - m
         IN  s * Pow2(L)

TrueDiv(num, den) ==
    IF den = 0 THEN [num |-> 0, den |-> 0, err |-> 0]
    ELSE [num |-> num, den |-> den, err |-> RoundErr(num, den)]

\* a missing-value test that also takes 0.0 for missing
IsNaN_or_zero(x) == x.den = 0 \/ x.num = 0

IsNaN(x) == x.den = 0

\* np.floor of a double below 2^46 with den < 2^46: the rounding error
\* never reaches the next integer
Floor(x) == x.num \div x.den

----------------------------------------------------------------------------
(* The statements of percentage_blocks as functions of their operands.     *)

\* line 33: percentages = 100 * df[var].value_counts() / df.shape[0]
Percentages(d, cat) ==
    LET vc == value_counts(d, cat)
    IN  [k \in DOMAIN vc |->
            [idx |-> vc[k].idx, val |-> TrueDiv(100 * vc[k].val, shape0(d))]]

\* line 34: .astype(int) raises on a non-finite value
AstypeRaises(p) == \E k \in DOMAIN p : IsNaN(p[k].val)

\* line 34: counts = np.floor(percentages).astype(int)
FloorAstype(p) == [k \in DOMAIN p |-> [idx |-> p[k].idx, val |-> Floor(p[k].val)]]

\* double minus integer n, the result being in [0, 1): exact
SubInt(x, n) == [num |-> x.num - n * x.den, den |-> x.den, err |-> x.err]

\* line 35: decimal = (percentages - counts).sort_values(ascending=False)
Decimal(p, c) ==
    LET diff == [k \in DOMAIN p |->
                    [idx |-> p[k].idx, val |-> SubInt(p[k].val, c[k].val)]]
    IN  SortFloat(diff, Len(diff))

\* a deficit taken from 101 instead of 100
Rem_off_by_one(c) == 101 - SumVal(c)

\* line 38: rem = 100 - counts.sum()
Rem(c) == 100 - SumVal(c)

\* line 39: decimal.index[:rem], a slice: it stops at the end of the index
IndexSlice(dec, r) ==
    LET n == Min(r, Len(dec)) IN [k \in 1..n |-> dec[k].idx]

\* line 40: counts[cat] += 1
Increment(c, cat) ==
    [k \in DOMAIN c |-> IF c[k].idx = cat THEN [c[k] EXCEPT !.val = @ + 1] ELSE c[k]]

RECURSIVE AddExtra(_, _, _)
AddExtra(c, cats, k) ==
    IF k > Len(cats) THEN c ELSE AddExtra(Increment(c, cats[k]), cats, k + 1)

\* lines 27-42: the whole call; <<"ValueError">> stands for the raised error
percentage_blocks(d, cat) ==
    LET p == Percentages(d, cat)
    IN  IF AstypeRaises(p) THEN <<"ValueError">>
        ELSE LET c == FloorAstype(p)
                 dec == Decimal(p, c)
             IN  AddExtra(c, IndexSlice(dec, Rem(c)), 1)

----------------------------------------------------------------------------
(* One call of percentage_blocks(df, var), statement by statement.         *)

Dfs == UNION {[1..n -> Obs] : n \in 0..MaxRows}

\* Objects.  Every name of the function is bound to an object; an object is
\* known by the call that created it and the expression that built it.
Callers == {1, 2}
Slots == {"df", "percentages", "counts", "decimal"}
Objects == Callers \X Slots
NoRef == <<0, "None">>

\* no caller has called yet, nothing has been created
CallersIdle ==
    /\ heap = [o \in Objects |-> <<>>]
    /\ frames = [c \in Callers |->
                    [pc |-> "idle", df |-> NoRef,
                     percentages |-> NoRef, counts |-> NoRef, decimal |-> NoRef,
                     rem |-> 0, pos |-> 0, ret |-> NoRef]]

\* the plotting cell has not started
PlotIdle ==
    /\ waffle_counts = <<>>
    /\ labelkind = "str"
    /\ prev_count = 0
    /\ cat_i = 0
    /\ bars = <<>>
    /\ legend = <<>>
    /\ ppc = "idle"

\* the Q-Q plot cell has not started
QQIdle ==
    /\ num_var = <<>>
    /\ n_points = 0
    /\ qs = <<>>
    /\ expected_vals = <<>>
    /\ scatter = <<>>
    /\ qpc = "idle"

\* the stacked bar cell has not started
StackIdle ==
    /\ df_cats = <<>>
    /\ cats_categorical = FALSE
    /\ cat1_counts = <<>>
    /\ baselines = <<>>
    /\ artists = <<>>
    /\ i_cat2 = 0
    /\ spc = "idle"

\* the 2-d histogram cell has not started
HistIdle ==
    /\ df_nums = <<>>
    /\ xbin_edges = <<>>
    /\ ybin_edges = <<>>
    /\ xbin_idxs = <<>>
    /\ ybin_idxs = <<>>
    /\ pts_per_bin = <<>>
    /\ z_wts = <<>>
    /\ hpc = "idle"

\* mean_poly has not been called
PolyIdle ==
    /\ poly_x = <<>>
    /\ poly_y = <<>>
    /\ bins_arg = <<>>
    /\ bin_edges = <<>>
    /\ bins = <<>>
    /\ bin_centers = <<>>
    /\ means = <<>>
    /\ errorbar = <<>>
    /\ mpc = "idle"

\* no cell of the other notebooks has started
NbIdle == QQIdle /\ StackIdle /\ HistIdle /\ PolyIdle

Init ==
    /\ df \in Dfs
    /\ categorical \in BOOLEAN
    /\ pc = "line33"
    /\ percentages = <<>>
    /\ counts = <<>>
    /\ decimal = <<>>
    /\ rem = 0
    /\ pos = 0
    /\ result = <<>>
    /\ CallersIdle
    /\ NbIdle
    /\ PlotIdle

ComputePercentages ==
    /\ pc = "line33"
    /\ percentages' = Percentages(df, categorical)
    /\ pc' = "line34"
    /\ UNCHANGED <<df, categorical, counts, decimal, rem, pos, result>>
    /\ UNCHANGED <<callersVars, plotVars, nbVars>>

ComputeCounts ==
    /\ pc = "line34"
    /\ ~AstypeRaises(percentages)
    /\ counts' = FloorAstype(percentages)
    /\ pc' = "line35"
    /\ UNCHANGED <<df, categorical, percentages, decimal, rem, pos, result>>
    /\ UNCHANGED <<callersVars, plotVars, nbVars>>

RaiseOnNaN ==
    /\ pc = "line34"
    /\ AstypeRaises(percentages)
    /\ pc' = "raised"
    /\ UNCHANGED <<df, categorical, percentages, counts, decimal, rem, pos, result>>
    /\ UNCHANGED <<callersVars, plotVars, nbVars>>

ComputeDecimal ==
    /\ pc = "line35"
    /\ decimal' = Decimal(percentages, counts)
    /\ pc' = "line38"
    /\ UNCHANGED <<df, categorical, percentages, counts, rem, pos, result>>
    /\ UNCHANGED <<callersVars, plotVars, nbVars>>

ComputeRem ==
    /\ pc = "line38"
    /\ rem' = Rem(counts)
    /\ pos' = 1
    /\ pc' = "line39"
    /\ UNCHANGED <<df, categorical, percentages, counts, decimal, result>>
    /\ UNCHANGED <<callersVars, plotVars, nbVars>>

LoopBody ==
    /\ pc = "line39"
    /\ pos <= Len(IndexSlice(decimal, rem))
    /\ counts' = Increment(counts, IndexSlice(decimal, rem)[pos])
    /\ pos' = pos + 1
    /\ UNCHANGED <<df, categorical, pc, percentages, decimal, rem, result>>
    /\ UNCHANGED <<callersVars, plotVars, nbVars>>

Return ==
    /\ pc = "line39"
    /\ pos > Len(IndexSlice(decimal, rem))
    /\ result' = counts
    /\ pc' = "done"
    /\ UNCHANGED <<df, categorical, percentages, counts, decimal, rem, pos>>
    /\ UNCHANGED <<callersVars, plotVars, nbVars>>

Next ==
    \/ ComputePercentages
    \/ ComputeCounts
    \/ RaiseOnNaN
    \/ ComputeDecimal
    \/ ComputeRem
    \/ LoopBody
    \/ Return

Spec == Init /\ [][Next]_vars

----------------------------------------------------------------------------
(* Two callers of percentage_blocks whose statements interleave in any     *)
(* order, each call working on the objects its own expressions create.     *)

\* a call that has not been made
CallIdle ==
    /\ df = <<>>
    /\ categorical = FALSE
    /\ pc = "idle"
    /\ percentages = <<>>
    /\ counts = <<>>
    /\ decimal = <<>>
    /\ rem = 0
    /\ pos = 0
    /\ result = <<>>

DfsCallers == UNION {[1..n -> Obs] : n \in 0..MaxRowsCallers}

\* an object created by the same expression in every call, shared by them
NewObj_shared(c, slot) == <<1, slot>>

\* line 33 done in place: the percentages overwrite the caller's column
NewObj_inplace(c, slot) == IF slot = "percentages" THEN <<c, "df">> ELSE <<c, slot>>

\* the object an expression of call c evaluates to: a new one, its own
NewObj(c, slot) == <<c, slot>>

\* each caller passes a dataframe; both may pass the same one
CallersInit ==
    /\ CallIdle
    /\ PlotIdle
    /\ NbIdle
    /\ \E d1, d2 \in DfsCallers, b1, b2, same \in BOOLEAN :
          /\ same => (d2 = <<>> /\ b2 = FALSE)
          /\ heap = [o \in Objects |->
                        IF o = <<1, "df">> THEN [col |-> d1, categorical |-> b1]
                        ELSE IF o = <<2, "df">> /\ ~same
                             THEN [col |-> d2, categorical |-> b2]
                             ELSE <<>>]
          /\ frames = [c \in Callers |->
                          [pc |-> "line33",
                           df |-> IF same THEN <<1, "df">> ELSE <<c, "df">>,
                           percentages |-> NoRef, counts |-> NoRef, decimal |-> NoRef,
                           rem |-> 0, pos |-> 0, ret |-> NoRef]]

\* line 33
CallerPercentages(c) ==
    LET f == frames[c]
        o == NewObj(c, "percentages")
    IN  /\ f.pc = "line33"
        /\ heap' = [heap EXCEPT
                       ![o] = Percentages(heap[f.df].col, heap[f.df].categorical)]
        /\ frames' = [frames EXCEPT ![c].percentages = o, ![c].pc = "line34"]
        /\ UNCHANGED <<callVars, plotVars, nbVars>>

\* line 34
CallerCounts(c) ==
    LET f == frames[c]
        o == NewObj(c, "counts")
    IN  /\ f.pc = "line34"
        /\ ~AstypeRaises(heap[f.percentages])
        /\ heap' = [heap EXCEPT ![o] = FloorAstype(heap[f.percentages])]
        /\ frames' = [frames EXCEPT ![c].counts = o, ![c].pc = "line35"]
        /\ UNCHANGED <<callVars, plotVars, nbVars>>

\* line 34, raising
CallerRaise(c) ==
    LET f == frames[c]
    IN  /\ f.pc = "line34"
        /\ AstypeRaises(heap[f.percentages])
        /\ frames' = [frames EXCEPT ![c].pc = "raised"]
        /\ UNCHANGED <<heap, callVars, plotVars, nbVars>>

\* line 35
CallerDecimal(c) ==
    LET f == frames[c]
        o == NewObj(c, "decimal")
    IN  /\ f.pc = "line35"
        /\ heap' = [heap EXCEPT ![o] = Decimal(heap[f.percentages], heap[f.counts])]
        /\ frames' = [frames EXCEPT ![c].decimal = o, ![c].pc = "line38"]
        /\ UNCHANGED <<callVars, plotVars, nbVars>>

\* line 38
CallerRem(c) ==
    LET f == frames[c]
    IN  /\ f.pc = "line38"
        /\ frames' = [frames EXCEPT ![c].rem = Rem(heap[f.counts]),
                                    ![c].pos = 1, ![c].pc = "line39"]
        /\ UNCHANGED <<heap, callVars, plotVars, nbVars>>

\* lines 39-40: counts[cat] += 1 writes into the object counts is bound to
CallerLoop(c) ==
    LET f == frames[c]
        cats == IndexSlice(heap[f.decimal], f.rem)
    IN  /\ f.pc = "line39"
        /\ f.pos <= Len(cats)
        /\ heap' = [heap EXCEPT ![f.counts] = Increment(@, cats[f.pos])]
        /\ frames' = [frames EXCEPT ![c].pos = f.pos + 1]
        /\ UNCHANGED <<callVars, plotVars, nbVars>>

\* line 42: the caller gets the object itself, not a copy
CallerReturn(c) ==
    LET f == frames[c]
    IN  /\ f.pc = "line39"
        /\ f.pos > Len(IndexSlice(heap[f.decimal], f.rem))
        /\ frames' = [frames EXCEPT ![c].ret = f.counts, ![c].pc = "done"]
        /\ UNCHANGED <<heap, callVars, plotVars, nbVars>>

CallersNext ==
    \/ \E c \in Callers : CallerPercentages(c)
    \/ \E c \in Callers : CallerCounts(c)
    \/ \E c \in Callers : CallerRaise(c)
    \/ \E c \in Callers : CallerDecimal(c)
    \/ \E c \in Callers : CallerRem(c)
    \/ \E c \in Callers : CallerLoop(c)
    \/ \E c \in Callers : CallerReturn(c)

CallersSpec == CallersInit /\ [][CallersNext]_vars

----------------------------------------------------------------------------
(* The plotting cell (notebook lines 89-105): one bar call per category,   *)
(* then the legend.  The category labels of the column are strings, or the *)
(* integers 0, 1, 2 (written A, B, C in the model).                         *)

IntLabel(l) == CASE l = "A" -> 0 [] l = "B" -> 1 [] l = "C" -> 2 [] OTHER -> 0 - 1

\* waffle_counts[key] for an integer key: by label when the index holds
\* integers (KeyError when no label equals key), by position otherwise
GetitemRaises(s, key, kind) ==
    kind = "int" /\ ~(\E k \in DOMAIN s : IntLabel(s[k].idx) = key)

Getitem(s, key, kind) ==
    IF kind = "int"
    THEN s[CHOOSE k \in DOMAIN s : IntLabel(s[k].idx) = key].val
    ELSE s[key + 1].val

\* block numbers that start one after the running offset
Blocks_from_one(prev, n) == [k \in 1..n |-> prev + k]

\* line 95: blocks = np.arange(prev_count, prev_count + waffle_counts[cat])
Blocks(prev, n) == [k \in 1..n |-> prev + k - 1]

\* line 89: waffle_counts = percentage_blocks(df, 'cat_var'), returned
PlotInit ==
    /\ df \in Dfs
    /\ categorical \in BOOLEAN
    /\ ~AstypeRaises(Percentages(df, categorical))
    /\ pc = "done"
    /\ percentages = <<>>
    /\ counts = <<>>
    /\ decimal = <<>>
    /\ rem = 0
    /\ pos = 0
    /\ result = percentage_blocks(df, categorical)
    /\ CallersIdle
    /\ NbIdle
    /\ waffle_counts = result
    /\ labelkind \in {"str", "int"}
    /\ prev_count = 0
    /\ cat_i = 0
    /\ bars = <<>>
    /\ legend = <<>>
    /\ ppc = "line93"

\* lines 93-100: one pass of the loop, for cat = cat_i
BarCall ==
    /\ ppc = "line93"
    /\ cat_i < Len(waffle_counts)
    /\ ~GetitemRaises(waffle_counts, cat_i, labelkind)
    /\ LET n == Getitem(waffle_counts, cat_i, labelkind)
           blocks == Blocks(prev_count, n)
       IN  /\ bars' = Append(bars, [k \in 1..n |->
                                      [x |-> blocks[k] % 10, bottom |-> blocks[k] \div 10]])
           /\ prev_count' = prev_count + n
    /\ cat_i' = cat_i + 1
    /\ UNCHANGED <<waffle_counts, labelkind, legend, ppc, callVars, callersVars, nbVars>>

\* line 95: waffle_counts[cat] raises KeyError
BarKeyError ==
    /\ ppc = "line93"
    /\ cat_i < Len(waffle_counts)
    /\ GetitemRaises(waffle_counts, cat_i, labelkind)
    /\ ppc' = "raised"
    /\ UNCHANGED <<waffle_counts, labelkind, prev_count, cat_i, bars, legend,
                   callVars, callersVars, nbVars>>

\* line 103: plt.legend(waffle_counts.index, ...): the k-th label goes with
\* the k-th bar call
Legend ==
    /\ ppc = "line93"
    /\ cat_i = Len(waffle_counts)
    /\ legend' = [k \in 1..Min(Len(waffle_counts), Len(bars)) |->
                     [label |-> waffle_counts[k].idx, handle |-> k]]
    /\ ppc' = "shown"
    /\ UNCHANGED <<waffle_counts, labelkind, prev_count, cat_i, bars,
                   callVars, callersVars, nbVars>>

PlotNext ==
    \/ BarCall
    \/ BarKeyError
    \/ Legend

PlotSpec == PlotInit /\ [][PlotNext]_vars

----------------------------------------------------------------------------
(* The absolute-frequency waffle cell (notebook lines 125-141): each box   *)
(* stands for five counts, the columns are filled from left to right.      *)

\* .astype(int) of a non-negative double below 2^46: the fraction is cut off
AstypeInt(x) == x.num \div x.den

\* a box count rounded to the nearest integer instead of cut off
AbsWaffleCounts_round(d, cat) ==
    LET vc == value_counts(d, cat)
    IN  [k \in DOMAIN vc |->
            [idx |-> vc[k].idx, val |-> (2 * vc[k].val + 5) \div 10]]

\* line 126: waffle_counts = (df['cat_var'].value_counts() / 5).astype(int)
AbsWaffleCounts(d, cat) ==
    LET vc == value_counts(d, cat)
    IN  [k \in DOMAIN vc |->
            [idx |-> vc[k].idx, val |-> AstypeInt(TrueDiv(vc[k].val, 5))]]

AbsInit ==
    /\ df \in Dfs
    /\ categorical \in BOOLEAN
    /\ pc = "idle"
    /\ percentages = <<>>
    /\ counts = <<>>
    /\ decimal = <<>>
    /\ rem = 0
    /\ pos = 0
    /\ result = <<>>
    /\ CallersIdle
    /\ NbIdle
    /\ waffle_counts = <<>>
    /\ labelkind \in {"str", "int"}
    /\ prev_count = 0
    /\ cat_i = 0
    /\ bars = <<>>
    /\ legend = <<>>
    /\ ppc = "line126"

\* lines 126-128
AbsCounts ==
    /\ ppc = "line126"
    /\ waffle_counts' = AbsWaffleCounts(df, categorical)
    /\ prev_count' = 0
    /\ ppc' = "line130"
    /\ UNCHANGED <<labelkind, cat_i, bars, legend, callVars, callersVars, nbVars>>

\* lines 130-137: one pass of the loop, plt.bar(y, 0.8, 0.8, x)
AbsBarCall ==
    /\ ppc = "line130"
    /\ cat_i < Len(waffle_counts)
    /\ ~GetitemRaises(waffle_counts, cat_i, labelkind)
    /\ LET n == Getitem(waffle_counts, cat_i, labelkind)
           blocks == Blocks(prev_count, n)
       IN  /\ bars' = Append(bars, [k \in 1..n |->
                                      [x |-> blocks[k] \div 10, bottom |-> blocks[k] % 10]])
           /\ prev_count' = prev_count + n
    /\ cat_i' = cat_i + 1
    /\ UNCHANGED <<waffle_counts, labelkind, legend, ppc, callVars, callersVars, nbVars>>

\* line 132: waffle_counts[cat] raises KeyError
AbsBarKeyError ==
    /\ ppc = "line130"
    /\ cat_i < Len(waffle_counts)
    /\ GetitemRaises(waffle_counts, cat_i, labelkind)
    /\ ppc' = "raised"
    /\ UNCHANGED <<waffle_counts, labelkind, prev_count, cat_i, bars, legend,
                   callVars, callersVars, nbVars>>

\* lines 140-145: the box-size legend, then plt.legend(waffle_counts.index)
AbsLegend ==
    /\ ppc = "line130"
    /\ cat_i = Len(waffle_counts)
    /\ legend' = [k \in 1..Min(Len(waffle_counts), Len(bars)) |->
                     [label |-> waffle_counts[k].idx, handle |-> k]]
    /\ ppc' = "end"
    /\ UNCHANGED <<waffle_counts, labelkind, prev_count, cat_i, bars,
                   callVars, callersVars, nbVars>>

AbsNext ==
    \/ AbsCounts
    \/ AbsBarCall
    \/ AbsBarKeyError
    \/ AbsLegend

AbsSpec == AbsInit /\ [][AbsNext]_vars

----------------------------------------------------------------------------
(* The Q-Q plot cell (unnamed/part_000 lines 74-78; lines 182-186 repeat   *)
(* it on generated data).  A probability point is kept as the exact        *)
(* quotient [num, den], den > 0: the double the code computes is that      *)
(* quotient correctly rounded, so it has the same sign and lies on the     *)
(* same side of 1.                                                          *)

MaxPoints == 4
NumVals == 1..3
NumVars == UNION {[1..n -> NumVals] : n \in 0..MaxPoints}

RatLt(a, b) == a.num * b.den < b.num * a.den
RatEq(a, b) == a.num * b.den = b.num * a.den
RatAdd(a, b) == [num |-> a.num * b.den + b.num * a.den, den |-> a.den * b.den]
Rat(n) == [num |-> n, den |-> 1]

\* line 75: qs = (np.arange(n_points) - .5) / n_points; np.arange(n) is
\* 0, 1, ..., n - 1, and entry k of the model holds the array's element k - 1
Qs(n) == [k \in 1..n |-> [num |-> 2 * (k - 1) - 1, den |-> 2 * n]]

\* norm.ppf(q, ...): defined on [0, 1], nan outside; the value is kept as
\* the probability it is the quantile of
Ppf(q) == IF RatLt(q, Rat(0)) \/ RatLt(Rat(1), q) THEN [nan |-> TRUE, q |-> q]
          ELSE [nan |-> FALSE, q |-> q]

\* Series.sort_values(): ascending
RECURSIVE InsertAsc(_, _)
InsertAsc(s, v) ==
    IF s = <<>> THEN <<v>>
    ELSE IF v < s[Len(s)]
         THEN Append(InsertAsc(SubSeq(s, 1, Len(s) - 1), v), s[Len(s)])
         ELSE Append(s, v)

RECURSIVE sort_values(_, _)
sort_values(s, k) == IF k = 0 THEN <<>> ELSE InsertAsc(sort_values(s, k - 1), s[k])

QQInit ==
    /\ CallIdle
    /\ CallersIdle
    /\ PlotIdle
    /\ StackIdle
    /\ HistIdle
    /\ PolyIdle
    /\ num_var \in NumVars
    /\ n_points = 0
    /\ qs = <<>>
    /\ expected_vals = <<>>
    /\ scatter = <<>>
    /\ qpc = "line74"

\* line 74: n_points = df.shape[0]
QQNPoints ==
    /\ qpc = "line74"
    /\ n_points' = Len(num_var)
    /\ qpc' = "line75"
    /\ UNCHANGED <<num_var, qs, expected_vals, scatter>>
    /\ UNCHANGED notQQ

\* line 75
QQQs ==
    /\ qpc = "line75"
    /\ qs' = Qs(n_points)
    /\ qpc' = "line76"
    /\ UNCHANGED <<num_var, n_points, expected_vals, scatter>>
    /\ UNCHANGED notQQ

\* line 76: expected_vals = norm.ppf(qs, samp_mean, samp_sd)
QQExpected ==
    /\ qpc = "line76"
    /\ expected_vals' = [k \in DOMAIN qs |-> Ppf(qs[k])]
    /\ qpc' = "line78"
    /\ UNCHANGED <<num_var, n_points, qs, scatter>>
    /\ UNCHANGED notQQ

\* line 78: plt.scatter(expected_vals, df['num_var'].sort_values()): the
\* k-th expected value goes with the k-th smallest observation
QQScatter ==
    /\ qpc = "line78"
    /\ scatter' = LET obs == sort_values(num_var, Len(num_var))
                  IN  [k \in DOMAIN expected_vals |->
                          [expected |-> expected_vals[k], observed |-> obs[k]]]
    /\ qpc' = "shown"
    /\ UNCHANGED <<num_var, n_points, qs, expected_vals>>
    /\ UNCHANGED notQQ

QQNext ==
    \/ QQNPoints
    \/ QQQs
    \/ QQExpected
    \/ QQScatter

QQSpec == QQInit /\ [][QQNext]_vars

----------------------------------------------------------------------------
(* The relative-frequency stacked bar cell (unnamed/part_000 lines         *)
(* 340-362).  A row of df is a pair <<cat_var1, cat_var2>>.  A proportion  *)
(* is kept as the exact quotient [num, den]; den = 0 stands for NaN.       *)

cat1_order == <<"East", "South">>
cat2_order == <<"Type X", "Type Y">>

MaxStackRows == 4
StackRows == {<<cat1_order[a], cat2_order[b]>> : a \in DOMAIN cat1_order, b \in DOMAIN cat2_order}
StackDfs == UNION {[1..n -> StackRows] : n \in 0..MaxStackRows}

\* the cat_var1 column of the rows whose cat_var2 is in keep
Cat1Column(d, keep) ==
    LET sel == SelectSeq(d, LAMBDA r : r[2] \in keep)
    IN  [k \in DOMAIN sel |-> sel[k][1]]

\* df[...]['cat_var1'].value_counts(): the observed levels of an object
\* column, every level of a categorical one
Cat1ValueCounts(col, cat) ==
    LET idx == IF cat THEN cat1_order ELSE unique(col, 1, <<>>)
        raw == [k \in DOMAIN idx |-> [idx |-> idx[k], val |-> CountOf(col, idx[k])]]
    IN  SortInt(raw, Len(raw))

HasLabel(s, l) == \E k \in DOMAIN s : s[k].idx = l
Lookup(s, l) == s[CHOOSE k \in DOMAIN s : s[k].idx = l].val

FNaN == [num |-> 0, den |-> 0]
FIsNaN(a) == a.den = 0
FAdd(a, b) == IF FIsNaN(a) \/ FIsNaN(b) THEN FNaN ELSE RatAdd(a, b)
FEq(a, b) == ~FIsNaN(a) /\ ~FIsNaN(b) /\ RatEq(a, b)

\* line 352: inner_props = inner_counts / cat1_counts, aligned on the union
\* of the two indexes: NaN for a label only one side has, and for 0 / 0
InnerProps(inner, outer) ==
    LET labels == {inner[k].idx : k \in DOMAIN inner} \cup {outer[k].idx : k \in DOMAIN outer}
    IN  [l \in labels |->
            IF HasLabel(inner, l) /\ HasLabel(outer, l) /\ Lookup(outer, l) # 0
            THEN [num |-> Lookup(inner, l), den |-> Lookup(outer, l)]
            ELSE FNaN]

\* inner_props[cat1_order] raises KeyError when a label is not in the index
ReindexRaises(props) == \E j \in DOMAIN cat1_order : cat1_order[j] \notin DOMAIN props

StackInnerProps(i) ==
    InnerProps(Cat1ValueCounts(Cat1Column(df_cats, {cat2_order[i]}), cats_categorical),
               cat1_counts)

StackInit ==
    /\ CallIdle
    /\ CallersIdle
    /\ PlotIdle
    /\ QQIdle
    /\ HistIdle
    /\ PolyIdle
    /\ df_cats \in StackDfs
    /\ cats_categorical \in BOOLEAN
    /\ cat1_counts = <<>>
    /\ baselines = <<>>
    /\ artists = <<>>
    /\ i_cat2 = 0
    /\ spc = "line343"

\* lines 343-345
StackSetup ==
    /\ spc = "line343"
    /\ artists' = <<>>
    /\ baselines' = [j \in DOMAIN cat1_order |-> Rat(0)]
    /\ cat1_counts' = Cat1ValueCounts(Cat1Column(df_cats, {cat2_order[b] : b \in DOMAIN cat2_order}),
                                      cats_categorical)
    /\ i_cat2' = 1
    /\ spc' = "line348"
    /\ UNCHANGED <<df_cats, cats_categorical>>
    /\ UNCHANGED notStack

\* lines 348-358: one pass of the loop
StackBar ==
    /\ spc = "line348"
    /\ i_cat2 <= Len(cat2_order)
    /\ LET inner_props == StackInnerProps(i_cat2)
       IN  /\ ~ReindexRaises(inner_props)
           /\ artists' = Append(artists,
                           [j \in DOMAIN cat1_order |->
                               [height |-> inner_props[cat1_order[j]], bottom |-> baselines[j]]])
           /\ baselines' = [j \in DOMAIN cat1_order |->
                               FAdd(baselines[j], inner_props[cat1_order[j]])]
    /\ i_cat2' = i_cat2 + 1
    /\ UNCHANGED <<df_cats, cats_categorical, cat1_counts, spc>>
    /\ UNCHANGED notStack

\* line 355: inner_props[cat1_order] raises KeyError
StackKeyError ==
    /\ spc = "line348"
    /\ i_cat2 <= Len(cat2_order)
    /\ ReindexRaises(StackInnerProps(i_cat2))
    /\ spc' = "raised"
    /\ UNCHANGED <<df_cats, cats_categorical, cat1_counts, baselines, artists, i_cat2>>
    /\ UNCHANGED notStack

\* lines 360-362
StackLegend ==
    /\ spc = "line348"
    /\ i_cat2 > Len(cat2_order)
    /\ spc' = "shown"
    /\ UNCHANGED <<df_cats, cats_categorical, cat1_counts, baselines, artists, i_cat2>>
    /\ UNCHANGED notStack

StackNext ==
    \/ StackSetup
    \/ StackBar
    \/ StackKeyError
    \/ StackLegend

StackSpec == StackInit /\ [][StackNext]_vars

----------------------------------------------------------------------------
(* The 2-d histogram of means ("4. other adaptations of bivariate          *)
(* plots.ipynb" lines 20-37).  num_var1 and num_var2 are kept in units of  *)
(* 0.25, so the edges 0.25, 0.75, ... are 1, 3, ... and 7, 7.5, ... are    *)
(* 28, 30, ...; these values and their sums are exact doubles.  A row of   *)
(* df is a record [x, y, z] of num_var1, num_var2, num_var3.               *)

MaxPts == 3
XVals == {2, 3, 4, 6}
YVals == {29, 31}
ZVals == {1, 2}
HistRows == [x : XVals, y : YVals, z : ZVals]
HistDfs == UNION {[1..n -> HistRows] : n \in 1..MaxPts}

SeqMax(s) == CHOOSE m \in {s[k] : k \in DOMAIN s} : \A k \in DOMAIN s : s[k] <= m
SeqMin(s) == CHOOSE m \in {s[k] : k \in DOMAIN s} : \A k \in DOMAIN s : s[k] >= m

\* np.arange(start, stop, step): start, start + step, ... below stop
Arange(start, stop, step) ==
    [i \in 1..(IF stop > start THEN (stop - start + step - 1) \div step ELSE 0)
        |-> start + (i - 1) * step]

\* pd.cut(v, edges, right=False, labels=False): the number, from 0, of the
\* bin [edges[i], edges[i+1]) that holds v; NaN (here -1) when none does
CutNaN == 0 - 1
Cut(v, edges) ==
    IF \E i \in 1..(Len(edges) - 1) : edges[i] <= v /\ v < edges[i + 1]
    THEN (CHOOSE i \in 1..(Len(edges) - 1) : edges[i] <= v /\ v < edges[i + 1]) - 1
    ELSE CutNaN

\* the members of a set of integers in increasing order
RECURSIVE SortedSeq(_)
SortedSeq(S) ==
    IF S = {} THEN <<>>
    ELSE LET m == CHOOSE m \in S : \A n \in S : m <= n
         IN  <<m>> \o SortedSeq(S \ {m})

\* lines 29-31: groupby(...).size(), reset_index(), pivot(...).values: a
\* matrix with one row per x-bin that has points and one column per y-bin
\* that has points, in increasing order; NaN (here 0) where a pair has none
Pivot(xi, yi) ==
    LET rows == SortedSeq({xi[k] : k \in DOMAIN xi})
        cols == SortedSeq({yi[k] : k \in DOMAIN yi})
    IN  [r \in DOMAIN rows |-> [c \in DOMAIN cols |->
            Cardinality({k \in DOMAIN xi : xi[k] = rows[r] /\ yi[k] = cols[c]})]]

\* pts_per_bin[xbin_idxs, ybin_idxs] raises IndexError for an index that is
\* not a position of the matrix
FancyIndexRaises(m, xi, yi) ==
    \E k \in DOMAIN xi : xi[k] + 1 \notin DOMAIN m \/ yi[k] + 1 \notin DOMAIN m[1]

HistInit ==
    /\ CallIdle
    /\ CallersIdle
    /\ PlotIdle
    /\ QQIdle
    /\ StackIdle
    /\ PolyIdle
    /\ df_nums \in HistDfs
    /\ xbin_edges = <<>>
    /\ ybin_edges = <<>>
    /\ xbin_idxs = <<>>
    /\ ybin_idxs = <<>>
    /\ pts_per_bin = <<>>
    /\ z_wts = <<>>
    /\ hpc = "line20"

\* lines 20-21
HistEdges ==
    /\ hpc = "line20"
    /\ xbin_edges' = Arange(1, SeqMax([k \in DOMAIN df_nums |-> df_nums[k].x]) + 2, 2)
    /\ ybin_edges' = Arange(28, SeqMax([k \in DOMAIN df_nums |-> df_nums[k].y]) + 2, 2)
    /\ hpc' = "line24"
    /\ UNCHANGED <<df_nums, xbin_idxs, ybin_idxs, pts_per_bin, z_wts>>
    /\ UNCHANGED notHist

HistCutX == [k \in DOMAIN df_nums |-> Cut(df_nums[k].x, xbin_edges)]
HistCutY == [k \in DOMAIN df_nums |-> Cut(df_nums[k].y, ybin_edges)]

\* lines 24-27
HistCut ==
    /\ hpc = "line24"
    /\ \A k \in DOMAIN df_nums : HistCutX[k] # CutNaN /\ HistCutY[k] # CutNaN
    /\ xbin_idxs' = HistCutX
    /\ ybin_idxs' = HistCutY
    /\ hpc' = "line29"
    /\ UNCHANGED <<df_nums, xbin_edges, ybin_edges, pts_per_bin, z_wts>>
    /\ UNCHANGED notHist

\* lines 24-27: .astype(int) raises ValueError on a value no bin holds
HistCutRaises ==
    /\ hpc = "line24"
    /\ \E k \in DOMAIN df_nums : HistCutX[k] = CutNaN \/ HistCutY[k] = CutNaN
    /\ hpc' = "ValueError"
    /\ UNCHANGED <<df_nums, xbin_edges, ybin_edges, xbin_idxs, ybin_idxs, pts_per_bin, z_wts>>
    /\ UNCHANGED notHist

\* lines 29-31
HistCount ==
    /\ hpc = "line29"
    /\ pts_per_bin' = Pivot(xbin_idxs, ybin_idxs)
    /\ hpc' = "line33"
    /\ UNCHANGED <<df_nums, xbin_edges, ybin_edges, xbin_idxs, ybin_idxs, z_wts>>
    /\ UNCHANGED notHist

\* line 33: z_wts = df['num_var3'] / pts_per_bin[xbin_idxs, ybin_idxs]
HistWeights ==
    /\ hpc = "line33"
    /\ ~FancyIndexRaises(pts_per_bin, xbin_idxs, ybin_idxs)
    /\ z_wts' = [k \in DOMAIN df_nums |->
                    [num |-> df_nums[k].z,
                     den |-> pts_per_bin[xbin_idxs[k] + 1][ybin_idxs[k] + 1]]]
    /\ hpc' = "line36"
    /\ UNCHANGED <<df_nums, xbin_edges, ybin_edges, xbin_idxs, ybin_idxs, pts_per_bin>>
    /\ UNCHANGED notHist

\* line 33 raises IndexError
HistIndexError ==
    /\ hpc = "line33"
    /\ FancyIndexRaises(pts_per_bin, xbin_idxs, ybin_idxs)
    /\ hpc' = "IndexError"
    /\ UNCHANGED <<df_nums, xbin_edges, ybin_edges, xbin_idxs, ybin_idxs, pts_per_bin, z_wts>>
    /\ UNCHANGED notHist

HistNext ==
    \/ HistEdges
    \/ HistCut
    \/ HistCutRaises
    \/ HistCount
    \/ HistWeights
    \/ HistIndexError

HistSpec == HistInit /\ [][HistNext]_vars

----------------------------------------------------------------------------
(* mean_poly ("4. other adaptations of bivariate plots.ipynb" lines        *)
(* 120-133) and the global bin_edges of line 136.  x is kept in units of   *)
(* 0.25; an edge or a center is an exact quotient [num, den].  The         *)
(* argument bins is [kind |-> "int", n |-> ...] or [kind |-> "edges",      *)
(* edges |-> ...].                                                         *)

MaxPolyPts == 2
MaxBins == 2
YMeans == {1, 2}

\* the sum of the entries of f at the positions in S
RECURSIVE SumOver(_, _)
SumOver(f, S) ==
    IF S = {} THEN Rat(0)
    ELSE LET j == CHOOSE j \in S : TRUE IN FAdd(f[j], SumOver(f, S \ {j}))

RatLe(a, b) == a.num * b.den <= b.num * a.den
Rats(s) == [k \in DOMAIN s |-> Rat(s[k])]

\* np.arange(start, m + 0.5, 0.5) for the largest value m of a column
EdgeLists == {Rats(Arange(start, m + 2, 2)) : start \in {0, 1}, m \in XVals}
BinsArgs ==
    [kind : {"int"}, n : 1..MaxBins] \cup [kind : {"edges"}, edges : EdgeLists]

\* line 124: np.linspace(lo, hi, n + 1)
Linspace(lo, hi, n) == [i \in 1..(n + 1) |-> [num |-> lo * n + (i - 1) * (hi - lo), den |-> n]]

\* (e[1:] + e[:-1]) / 2
Midpoints(e) ==
    [i \in 1..(Len(e) - 1) |-> [num |-> RatAdd(e[i + 1], e[i]).num,
                                 den |-> 2 * RatAdd(e[i + 1], e[i]).den]]

\* pd.cut raises ValueError unless the edges increase
CutRaises(e) == \E i \in 1..(Len(e) - 1) : ~RatLt(e[i], e[i + 1])

\* lines 128-130: the mean of y in each bin [e[i], e[i+1]) of x, NaN
\* (den = 0) for a bin without points
Means(x, y, e) ==
    [i \in 1..(Len(e) - 1) |->
        LET S == {k \in DOMAIN x : RatLe(e[i], Rat(x[k])) /\ RatLt(Rat(x[k]), e[i + 1])}
        IN  [num |-> SumOver([k \in DOMAIN y |-> Rat(y[k])], S).num, den |-> Cardinality(S)]]

PolyInit ==
    /\ CallIdle
    /\ CallersIdle
    /\ PlotIdle
    /\ QQIdle
    /\ StackIdle
    /\ HistIdle
    /\ \E n \in 1..MaxPolyPts :
          /\ poly_x \in [1..n -> XVals]
          /\ poly_y \in [1..n -> YMeans]
    /\ bin_edges \in {Rats(Arange(1, m + 2, 2)) : m \in {v \in XVals : v >= SeqMax(poly_x)}}
    /\ bins_arg \in BinsArgs
    /\ bins = <<>>
    /\ bin_centers = <<>>
    /\ means = <<>>
    /\ errorbar = <<>>
    /\ mpc = "line123"

\* lines 123-124
PolySetEdges ==
    /\ mpc = "line123"
    /\ bins' = IF bins_arg.kind = "int"
               THEN Linspace(SeqMin(poly_x), SeqMax(poly_x), bins_arg.n)
               ELSE bins_arg.edges
    /\ mpc' = "line125"
    /\ UNCHANGED <<poly_x, poly_y, bins_arg, bin_edges, bin_centers, means, errorbar>>
    /\ UNCHANGED notPoly

\* line 125: bin_centers = (bin_edges[1:] + bin_edges[:-1]) / 2
PolyCenters ==
    /\ mpc = "line125"
    /\ bin_centers' = Midpoints(bin_edges)
    /\ mpc' = "line128"
    /\ UNCHANGED <<poly_x, poly_y, bins_arg, bin_edges, bins, means, errorbar>>
    /\ UNCHANGED notPoly

\* lines 128-130
PolyMeans ==
    /\ mpc = "line128"
    /\ ~CutRaises(bins)
    /\ means' = Means(poly_x, poly_y, bins)
    /\ mpc' = "line133"
    /\ UNCHANGED <<poly_x, poly_y, bins_arg, bin_edges, bins, bin_centers, errorbar>>
    /\ UNCHANGED notPoly

\* line 128: pd.cut raises ValueError
PolyCutRaises ==
    /\ mpc = "line128"
    /\ CutRaises(bins)
    /\ mpc' = "ValueError128"
    /\ UNCHANGED <<poly_x, poly_y, bins_arg, bin_edges, bins, bin_centers, means, errorbar>>
    /\ UNCHANGED notPoly

\* line 133: plt.errorbar(x = bin_centers, y = means)
PolyErrorbar ==
    /\ mpc = "line133"
    /\ Len(bin_centers) = Len(means)
    /\ errorbar' = [i \in DOMAIN means |-> [x |-> bin_centers[i], y |-> means[i]]]
    /\ mpc' = "shown"
    /\ UNCHANGED <<poly_x, poly_y, bins_arg, bin_edges, bins, bin_centers, means>>
    /\ UNCHANGED notPoly

\* line 133: x and y of different sizes, ValueError
PolyErrorbarRaises ==
    /\ mpc = "line133"
    /\ Len(bin_centers) # Len(means)
    /\ mpc' = "ValueError133"
    /\ UNCHANGED <<poly_x, poly_y, bins_arg, bin_edges, bins, bin_centers, means, errorbar>>
    /\ UNCHANGED notPoly

PolyNext ==
    \/ PolySetEdges
    \/ PolyCenters
    \/ PolyMeans
    \/ PolyCutRaises
    \/ PolyErrorbar
    \/ PolyErrorbarRaises

PolySpec == PolyInit /\ [][PolyNext]_vars

----------------------------------------------------------------------------
(* Vocabulary of the claims.                                               *)

\* the frequency table of df: the observed count of each category
Categories == {result[k].idx : k \in DOMAIN result}
Count(l) == CountOf(df, l)
\* N, the total of the counts
Total == Cardinality({k \in DOMAIN df : df[k] # NaN})
\* a valid input: at least one category and N > 0
Valid == Total > 0

\* the cells a finished call gave to a label
Cells(l) == LET k == CHOOSE k \in DOMAIN result : result[k].idx = l IN result[k].val

ExactFloor(l) == (100 * Count(l)) \div Total
ExactRemainder(l) == (100 * Count(l)) % Total
ExactCeil(l) == ExactFloor(l) + (IF ExactRemainder(l) = 0 THEN 0 ELSE 1)

Terminated == pc \in {"done", "raised"}

DeficitCats == {l \in Categories : Cells(l) = ExactFloor(l) + 1}

\* the allocation as a set of (label, cells) pairs, whatever the order
AllocMap(res) == {<<res[k].idx, res[k].val>> : k \in DOMAIN res}

\* the input with rows i and j exchanged
Swap(d, i, j) ==
    [k \in DOMAIN d |-> IF k = i THEN d[j] ELSE IF k = j THEN d[i] ELSE d[k]]

FirstRow(d, l) == CHOOSE k \in DOMAIN d : d[k] = l /\ \A j \in 1..(k - 1) : d[j] # l

\* the labels make their first appearance in the same order in d and e
SameFirstAppearance(d, e) ==
    \A l, m \in Labels :
        (CountOf(d, l) > 0 /\ CountOf(d, m) > 0)
            => ((FirstRow(d, l) < FirstRow(d, m)) <=> (FirstRow(e, l) < FirstRow(e, m)))

----------------------------------------------------------------------------
(* The claims.                                                             *)

\* C1: for every valid input (at least one category, N > 0) the returned
\* cell counts sum to exactly 100.
C1_SumIs100 == (pc = "done" /\ Valid) => SumVal(result) = 100

\* C2: for every valid input every category gets at least
\* floor(100 * count_c / N) cells, N being the total of the counts.
C2_AtLeastFloor ==
    (pc = "done" /\ Valid) => \A l \in Categories : Cells(l) >= ExactFloor(l)

\* C3: for every valid input every category gets at most
\* ceil(100 * count_c / N) cells.
C3_AtMostCeil ==
    (pc = "done" /\ Valid) => \A l \in Categories : Cells(l) <= ExactCeil(l)

\* C4: exactly deficit categories get one cell above their floor, the
\* others stay at their floor, and no category left at its floor has a
\* strictly larger remainder than one that got the extra cell.
C4_LargestRemainders ==
    (pc = "done" /\ Valid) =>
        LET floors == [k \in DOMAIN result |->
                          [idx |-> result[k].idx, val |-> ExactFloor(result[k].idx)]]
            deficit == 100 - SumVal(floors)
        IN  /\ \A l \in Categories : Cells(l) \in {ExactFloor(l), ExactFloor(l) + 1}
            /\ Cardinality(DeficitCats) = deficit
            /\ \A a \in DeficitCats : \A b \in Categories \ DeficitCats :
                   ExactRemainder(b) <= ExactRemainder(a)

\* C5: for every valid input the deficit, 100 minus the sum of the floored
\* percentages, satisfies 0 <= deficit < number of categories, so the slice
\* of the top deficit categories stays inside the category list.
C5_DeficitInRange ==
    (pc \in {"line39", "done"} /\ Valid) => (0 <= rem /\ rem < Len(counts))

Progress ==
    CASE pc = "line33" -> 0
      [] pc = "line34" -> 1
      [] pc = "line35" -> 2
      [] pc = "line38" -> 3
      [] pc = "line39" -> 3 + pos
      [] OTHER -> 5 + pos

\* C7: from every valid input the call runs to its return: it never ends
\* in an error, and every step advances the call (the loop runs once per
\* sliced label at most), so the return is reached.
C7_ValidInputReturns ==
    /\ [](Valid => pc # "raised")
    /\ [][Valid => (Progress' > Progress /\ pos' <= Len(percentages') + 1)]_vars

C7_Witness == pc = "done" /\ Valid /\ Len(result) = 3 /\ rem > 0

\* C8: the percentage of a category is 100 * count_c / N with N the total
\* of the counts, also when some observations are counted in no category.
C8_PercentageOfTotal ==
    (pc # "line33" /\ Valid) =>
        \A k \in DOMAIN percentages :
            percentages[k].val.num * Total
                = 100 * Count(percentages[k].idx) * percentages[k].val.den

RECURSIVE Compositions(_, _)
Compositions(k, total) ==
    IF k = 0 THEN (IF total = 0 THEN {<<>>} ELSE {})
    ELSE UNION {{<<x>> \o s : s \in Compositions(k - 1, total - x)} : x \in 0..total}

Assignments == [k \in 0..Cardinality(Labels) |-> Compositions(k, 100)]

Abs(x) == IF x < 0 THEN 0 - x ELSE x

\* |cells - exact percentage| of the k-th category, in units of 1/N
Deviation(cells, k) == Abs(cells * Total - 100 * Count(result[k].idx))

\* C11: for every valid input the returned allocation minimizes the largest
\* |cells - exact percentage| over the categories, among all assignments of
\* non-negative integer cells summing to 100: every other assignment has a
\* category that deviates at least as much as the worst one of the result.
C11_MinimizesMaxDeviation ==
    (pc = "done" /\ Valid) =>
        \A a \in Assignments[Len(result)] :
            \A k \in DOMAIN result :
                \E j \in DOMAIN result :
                    Deviation(a[j], j) >= Deviation(result[k].val, k)

\* C12: a frequency table with a single category of positive count gives
\* that category exactly 100 cells.
C12_SingleCategory ==
    (pc = "done" /\ Valid /\ Len(result) = 1) => result[1].val = 100

\* C13: when every exact percentage is an integer the deficit is 0, no
\* category gets an extra cell and the allocation equals the percentages.
C13_IntegralShares ==
    (pc = "done" /\ Valid /\ \A l \in Categories : ExactRemainder(l) = 0) =>
        (rem = 0 /\ \A l \in Categories : Cells(l) = ExactFloor(l))

\* C14: k categories with equal positive counts get floor(100/k) or
\* floor(100/k) + 1 cells each, exactly 100 mod k of them the larger value,
\* and these are the first ones of the tie-break order (for A:1, B:1, C:1,
\* one category ends with 34).
C14_EqualCounts ==
    (/\ pc = "done"
     /\ Valid
     /\ \A k \in DOMAIN result :
            Count(result[k].idx) > 0 /\ Count(result[k].idx) = Count(result[1].idx)) =>
        LET n == Len(result)
        IN  \A k \in DOMAIN result :
                result[k].val = (100 \div n) + (IF k <= 100 % n THEN 1 ELSE 0)

\* C15: in a valid input a category with zero observed count gets 0 cells.
C15_ZeroCountZeroCells ==
    (pc = "done" /\ Valid) =>
        \A l \in Categories : Count(l) = 0 => Cells(l) = 0

\* the categories of the input frequency table: the declared categories of
\* a categorical column, the observed labels of an object column
InputCategories ==
    IF categorical THEN {CatOrder[k] : k \in DOMAIN CatOrder}
    ELSE {df[k] : k \in DOMAIN df} \ {NaN}

\* C16: the result has exactly one entry per category of the input
\* frequency table, none added or dropped, each an integer in 0..100.
C16_OneEntryPerCategory ==
    pc = "done" =>
        /\ Categories = InputCategories
        /\ Len(result) = Cardinality(InputCategories)
        /\ \A k \in DOMAIN result : result[k].val \in 0..100

C16_Witness ==
    /\ pc = "done"
    /\ Len(result) = 3
    /\ \E k \in DOMAIN result : result[k].val = 100
    /\ \E k \in DOMAIN result : result[k].val = 0

\* what caller c passed: its column and dtype
ArgCol(c) == heap[frames[c].df].col
ArgCategorical(c) == heap[frames[c].df].categorical

\* C17: a call leaves its input unchanged, and a series a call has returned
\* is not changed by any later step of any call: the increments of the loop
\* write only into the counts object of the running call.
C17_NoWriteOutsideCall ==
    [][\A c \in Callers :
          /\ heap'[frames[c].df] = heap[frames[c].df]
          /\ frames[c].pc = "done" =>
                 (frames'[c].ret = frames[c].ret
                  /\ heap'[frames[c].ret] = heap[frames[c].ret])]_vars

C17_Witness ==
    /\ frames[1].pc = "done"
    /\ frames[2].pc = "done"
    /\ heap[frames[1].ret] # <<>>
    /\ heap[frames[2].ret] # heap[frames[1].ret]
    /\ frames[2].pos > 1

\* C18: with the steps of several callers interleaved in any order, each
\* caller ends as it would running alone on its input: the same series
\* returned, or the same error raised.
C18_SameAsAlone ==
    \A c \in Callers :
        /\ frames[c].pc = "done" =>
               (/\ ~AstypeRaises(Percentages(ArgCol(c), ArgCategorical(c)))
                /\ heap[frames[c].ret]
                       = percentage_blocks(ArgCol(c), ArgCategorical(c)))
        /\ frames[c].pc = "raised" =>
               AstypeRaises(Percentages(ArgCol(c), ArgCategorical(c)))

C18_Witness ==
    /\ frames[1].pc = "done"
    /\ frames[2].pc = "line39"
    /\ frames[2].pos > 1
    /\ heap[frames[1].ret] # <<>>
    /\ heap[frames[2].counts] # heap[frames[1].ret]

\* the cells of the categories before position i of waffle_counts
RECURSIVE CellsBefore(_)
CellsBefore(i) == IF i <= 1 THEN 0 ELSE waffle_counts[i - 1].val + CellsBefore(i - 1)

\* C19: block b is drawn at column b mod 10 and row b div 10, b in 0..99,
\* and the blocks of the i-th category are the contiguous numbers starting
\* at the total of the counts of the categories before it.
C19_BlockPlacement ==
    \A i \in DOMAIN bars :
        /\ Len(bars[i]) = waffle_counts[i].val
        /\ \A k \in DOMAIN bars[i] :
               LET b == CellsBefore(i) + k - 1
               IN  /\ b \in 0..99
                   /\ bars[i][k].x = b % 10
                   /\ bars[i][k].bottom = b \div 10

\* C20: for any kind of label the read waffle_counts[cat] gives the count at
\* position cat, the i-th bar call draws the blocks of the i-th label of
\* waffle_counts.index, and the legend pairs each label with the bar call
\* that drew its blocks.
C20_LegendMatchesBars ==
    /\ ppc # "raised"
    /\ \A i \in DOMAIN bars : Len(bars[i]) = waffle_counts[i].val
    /\ \A k \in DOMAIN legend :
           Len(bars[legend[k].handle]) = Cells(legend[k].label)

C24_FiveCountsPerBox ==
    ppc \in {"line130", "end", "raised"} =>
        \A k \in DOMAIN waffle_counts :
            LET c == Count(waffle_counts[k].idx)
                b == waffle_counts[k].val
            IN  /\ b = c \div 5
                /\ 0 <= c - 5 * b
                /\ c - 5 * b < 5

\* a category of six counts has one box, one of four counts has none, and
\* the cell ends with fewer than 100 boxes drawn
C24_Witness ==
    /\ ppc = "end"
    /\ \E k \in DOMAIN waffle_counts :
           Count(waffle_counts[k].idx) >= 5 /\ waffle_counts[k].val = 1
    /\ \E k \in DOMAIN waffle_counts :
           Count(waffle_counts[k].idx) \in 1..4 /\ waffle_counts[k].val = 0
    /\ prev_count # 100
    /\ Len(bars) = Len(waffle_counts)

\* an allocation that keeps its invariant: non-negative cell counts that
\* total 100
ValidAllocation ==
    /\ SumVal(waffle_counts) = 100
    /\ \A k \in DOMAIN waffle_counts : waffle_counts[k].val >= 0

\* the grid positions of all the blocks drawn so far
DrawnCells == UNION {{bars[i][k] : k \in DOMAIN bars[i]} : i \in DOMAIN bars}

RECURSIVE DrawnCount(_)
DrawnCount(i) == IF i = 0 THEN 0 ELSE Len(bars[i]) + DrawnCount(i - 1)

\* C27: once the plotting loop has run over all categories of a valid
\* allocation, prev_count is 100 and every cell of the 10-by-10 grid has
\* been drawn exactly once: 100 blocks, on 100 different cells, all of them
\* inside the grid.
C27_GridCoveredOnce ==
    (ppc = "shown" /\ ValidAllocation) =>
        /\ prev_count = 100
        /\ DrawnCount(Len(bars)) = 100
        /\ DrawnCells = [x : 0..9, bottom : 0..9]

\* three categories drawn, read by label in an order other than the index's
C27_Witness ==
    /\ ppc = "shown"
    /\ ValidAllocation
    /\ Len(bars) = 3
    /\ \A i \in DOMAIN bars : Len(bars[i]) > 0
    /\ labelkind = "int"
    /\ waffle_counts[1].idx # "A"
    /\ Len(bars[1]) # waffle_counts[1].val

\* C23: for n data points the k-th smallest observation (k = 1..n) is
\* paired with probability point (k - 0.5)/n; every probability point lies
\* strictly between 0 and 1 and the points are symmetric about 0.5.
C23_ProbabilityPoints ==
    qpc = "shown" =>
        \A k \in DOMAIN scatter :
            LET q == scatter[k].expected.q
            IN  /\ RatEq(q, [num |-> 2 * k - 1, den |-> 2 * n_points])
                /\ RatLt(Rat(0), q)
                /\ RatLt(q, Rat(1))
                /\ RatEq(RatAdd(q, scatter[n_points + 1 - k].expected.q), Rat(1))
                /\ scatter[k].observed = sort_values(num_var, Len(num_var))[k]

\* the sum of the heights of the first n segments stacked on level j
RECURSIVE HeightsBelow(_, _)
HeightsBelow(j, n) ==
    IF n = 0 THEN Rat(0) ELSE FAdd(HeightsBelow(j, n - 1), artists[n][j].height)

\* C22: after the loop over cat2_order the heights of the segments of every
\* level of cat_var1 add up to exactly 1, and each segment's bottom is the
\* sum of the heights of the segments drawn before it.
C22_StackedToOne ==
    spc = "shown" =>
        \A j \in DOMAIN cat1_order :
            /\ FEq(HeightsBelow(j, Len(artists)), Rat(1))
            /\ \A i \in DOMAIN artists :
                   FEq(artists[i][j].bottom, HeightsBelow(j, i - 1))

\* the rows that fall in the same (x-bin, y-bin) cell as row k
SameCell(k) ==
    {j \in DOMAIN df_nums : xbin_idxs[j] = xbin_idxs[k] /\ ybin_idxs[j] = ybin_idxs[k]}

\* C25: the weight of every data point is its num_var3 divided by the number
\* of points in its (x-bin, y-bin) cell, so the weights of a cell add up to
\* the mean of num_var3 in it, also when some x-bin or y-bin index has no
\* points: line 33 then gives these weights as well.
C25_WeightsGiveCellMeans ==
    /\ hpc # "IndexError"
    /\ hpc = "line36" =>
           \A k \in DOMAIN df_nums :
               /\ FEq(z_wts[k], [num |-> df_nums[k].z, den |-> Cardinality(SameCell(k))])
               /\ FEq(SumOver(z_wts, SameCell(k)),
                      [num |-> SumOver([j \in DOMAIN df_nums |-> Rat(df_nums[j].z)], SameCell(k)).num,
                       den |-> Cardinality(SameCell(k))])

\* C26: whatever is passed as bins, the bin centers plotted are the
\* midpoints of the edges x was cut with: there are as many x positions as
\* means, and each mean is plotted at the center of its own bin.
C26_CentersOfBinsUsed ==
    /\ mpc # "ValueError133"
    /\ mpc = "shown" =>
           /\ Len(errorbar) = Len(bins) - 1
           /\ \A i \in DOMAIN errorbar :
                  /\ RatEq(errorbar[i].x, Midpoints(bins)[i])
                  /\ errorbar[i].y = Means(poly_x, poly_y, bins)[i]

====
